---- MODULE Spec2Model ----
(***************************************************************************)
(* Compliance Fort API (src/api/app.py): the request handlers for single   *)
(* and batch ZK-proof creation / verification, the module-level engine     *)
(* selection (lib) and the native engine they call through ctypes.         *)
(*                                                                         *)
(* Every handler is an `async def` without an await, so it runs to its end *)
(* on the event loop: one action per handler.  The native library          *)
(* (libcompliance_fort) is not part of the Python sources; its functions   *)
(* are the Engine* operators below, written from the interface contract.   *)
(***************************************************************************)
EXTENDS Integers, Sequences, FiniteSets, TLC

VARIABLES
    lib,      \* module-level engine handle: "CDLL" (library loaded) or "None" (mock mode)
    clock,    \* the clock read by time.perf_counter() and utcnow(), in ticks
    pc,       \* "idle": waiting for a request; "responded": a handler has returned
    req,      \* the request being handled
    env,      \* what the environment did during the request: engine faults, clock ticks
    calls,    \* the native (ctypes) calls the handler made, in order
    resp      \* what left the handler: a response model, an HTTPException or an exception

vars == <<lib, clock, pc, req, env, calls, resp>>

----------------------------------------------------------------------------
(* Bounds of the model *)

MaxItems == 2      \* longest batch
MaxClock == 3      \* the clock stops advancing here
MaxAdv == 1        \* largest advance of the clock within one phase of a handler

(* Program constants *)

INT_MAX == 2147483647          \* ctypes.c_int
INT_MIN == -INT_MAX - 1
MOCK_PROOF_R == 123
MOCK_PROOF_S == 456
MOCK_PUBLIC_KEY == 17

(* Input values *)

IdValues == {1, INT_MAX}
DataValues == {10, INT_MIN}
SecretValues == {7, 3}
None == <<>>                              \* Optional[int]: <<>> or <<n>>
OptKeyValues == {None, <<0>>, <<5>>}

\* Python truthiness of an Optional[int], as used by `x or y`
Truthy(opt) == opt # None /\ opt[1] # 0

----------------------------------------------------------------------------
(* The native engine (libcompliance_fort), from its interface contract:    *)
(* a Schnorr-style identification proof over a small group.                *)

ENGINE_P == 23
ENGINE_G == 5
ENGINE_Q == 22

RECURSIVE PowMod(_, _)
PowMod(b, e) == IF e = 0 THEN 1 ELSE ((b % ENGINE_P) * PowMod(b, e - 1)) % ENGINE_P

EngineChallenge(id, data, r) == ((id % ENGINE_Q) + (data % ENGINE_Q) + r) % ENGINE_Q

EngineNonce(id, data) == ((id % ENGINE_Q) + (data % ENGINE_Q) + 1) % ENGINE_Q

\* generate_public_key(secret)
EngineGeneratePublicKey(secret) == PowMod(ENGINE_G, secret % ENGINE_Q)

\* create_zk_proof(id, data, secret, pub_key) -> CMessage
EngineCreate(id, data, secret, pub_key) ==
    LET k == EngineNonce(id, data)
        r == PowMod(ENGINE_G, k)
        e == EngineChallenge(id, data, r)
    IN  [id |-> id, data |-> data,
         proof_r |-> r,
         proof_s |-> (k + e * (secret % ENGINE_Q)) % ENGINE_Q,
         public_key |-> pub_key]

\* verify_zk_proof(msg, pub_key) -> bool
EngineVerify(msg, pub_key) ==
    LET e == EngineChallenge(msg.id, msg.data, msg.proof_r % ENGINE_P)
    IN  PowMod(ENGINE_G, msg.proof_s % ENGINE_Q)
          = ((msg.proof_r % ENGINE_P) * PowMod(pub_key % ENGINE_P, e)) % ENGINE_P

\* batch_create(ids, data, count, secret, pub_key, messages)
EngineBatchCreate(ids, data, count, secret, pub_key) ==
    [i \in 1..count |-> EngineCreate(ids[i], data[i], secret, pub_key)]

\* batch_verify(messages, count, pub_key, valid_count, results)
EngineBatchVerify(messages, count, pub_key) ==
    LET results == [i \in 1..count |-> EngineVerify(messages[i], pub_key)]
    IN  [results |-> results,
         valid_count |-> Cardinality({i \in 1..count : results[i]})]

----------------------------------------------------------------------------
(* What can leave a handler *)

Ok(body) == [kind |-> "ok", body |-> body]

\* raise HTTPException(status_code=500, detail=...) from the handler's own except clause
HTTPException(detail) == [kind |-> "HTTPException", detail |-> detail]

\* an exception no clause of the handler catches
Unhandled(exc) == [kind |-> "unhandled", exc |-> exc]

Call(fn, fault) == [fn |-> fn, ok |-> fn \notin fault]

Sum3(ticks) == ticks[1] + ticks[2] + ticks[3]

----------------------------------------------------------------------------
(* Helper functions *)

\* mock mode taking the default public key from the secret
create_zk_proof_MockDerives(id, data, secret_key, pub_key, fault) ==
    IF lib = "None"
    THEN [raised |-> FALSE, calls |-> <<>>,
          msg |-> [id |-> id, data |-> data,
                   proof_r |-> MOCK_PROOF_R, proof_s |-> MOCK_PROOF_S,
                   public_key |-> IF Truthy(pub_key) THEN pub_key[1]
                                  ELSE EngineGeneratePublicKey(secret_key)]]
    ELSE LET derive == pub_key = None
             c1 == IF derive THEN <<Call("generate_public_key", fault)>> ELSE <<>>
             key == IF derive THEN EngineGeneratePublicKey(secret_key) ELSE pub_key[1]
         IN  IF derive /\ "generate_public_key" \in fault
             THEN [raised |-> TRUE, calls |-> c1]
             ELSE IF "create_zk_proof" \in fault
             THEN [raised |-> TRUE, calls |-> Append(c1, Call("create_zk_proof", fault))]
             ELSE [raised |-> FALSE,
                   calls |-> Append(c1, Call("create_zk_proof", fault)),
                   msg |-> EngineCreate(id, data, secret_key, key)]

\* create_zk_proof(id, data, secret_key, pub_key=None) -> CMessage
create_zk_proof(id, data, secret_key, pub_key, fault) ==
    IF lib = "None"
    THEN [raised |-> FALSE, calls |-> <<>>,
          msg |-> [id |-> id, data |-> data,
                   proof_r |-> MOCK_PROOF_R, proof_s |-> MOCK_PROOF_S,
                   public_key |-> IF Truthy(pub_key) THEN pub_key[1] ELSE MOCK_PUBLIC_KEY]]
    ELSE LET derive == pub_key = None
             c1 == IF derive THEN <<Call("generate_public_key", fault)>> ELSE <<>>
             key == IF derive THEN EngineGeneratePublicKey(secret_key) ELSE pub_key[1]
         IN  IF derive /\ "generate_public_key" \in fault
             THEN [raised |-> TRUE, calls |-> c1]
             ELSE IF "create_zk_proof" \in fault
             THEN [raised |-> TRUE, calls |-> Append(c1, Call("create_zk_proof", fault))]
             ELSE [raised |-> FALSE,
                   calls |-> Append(c1, Call("create_zk_proof", fault)),
                   msg |-> EngineCreate(id, data, secret_key, key)]

\* mock mode answering from the proof's arithmetic instead of True
verify_zk_proof_MockChecks(msg, pub_key, fault) ==
    IF lib = "None"
    THEN [raised |-> FALSE, calls |-> <<>>, value |-> EngineVerify(msg, pub_key)]
    ELSE IF "verify_zk_proof" \in fault
    THEN [raised |-> TRUE, calls |-> <<Call("verify_zk_proof", fault)>>]
    ELSE [raised |-> FALSE, calls |-> <<Call("verify_zk_proof", fault)>>,
          value |-> EngineVerify(msg, pub_key)]

\* verify_zk_proof(msg, pub_key) -> bool
verify_zk_proof(msg, pub_key, fault) ==
    IF lib = "None"
    THEN [raised |-> FALSE, calls |-> <<>>, value |-> TRUE]
    ELSE IF "verify_zk_proof" \in fault
    THEN [raised |-> TRUE, calls |-> <<Call("verify_zk_proof", fault)>>]
    ELSE [raised |-> FALSE, calls |-> <<Call("verify_zk_proof", fault)>>,
          value |-> EngineVerify(msg, pub_key)]

\* MessageResponse(id=..., ..., timestamp=...)
MessageResponse(m, timestamp) ==
    [id |-> m.id, data |-> m.data, proof_r |-> m.proof_r, proof_s |-> m.proof_s,
     public_key |-> m.public_key, timestamp |-> timestamp]

----------------------------------------------------------------------------
(* API routes.  A handler takes the request, the set of native functions   *)
(* that fail during it (fault), the clock advances of its three phases     *)
(* (ticks: before, during and after the engine work) and the clock reading *)
(* at its entry (t0); it yields what leaves the handler and the native     *)
(* calls it made.                                                          *)

\* the flag reported without looking at lib
health_check_AlwaysLoaded(t0) ==
    [resp |-> Ok([status |-> "healthy", timestamp |-> t0, library_loaded |-> TRUE]),
     calls |-> <<>>]

\* GET /health
health_check(t0) ==
    [resp |-> Ok([status |-> "healthy", timestamp |-> t0,
                  library_loaded |-> lib # "None"]),
     calls |-> <<>>]

\* POST /api/v1/proof/create
create_proof(request, fault, ticks, t0) ==
    LET r == create_zk_proof(request.id, request.data, request.secret_key,
                             request.public_key, fault)
    IN  IF r.raised
        THEN [resp |-> HTTPException("Failed to create proof"), calls |-> r.calls]
        ELSE [resp |-> Ok(MessageResponse(r.msg, t0 + Sum3(ticks))), calls |-> r.calls]

\* POST /api/v1/proof/verify
verify_proof(request, fault, ticks, t0) ==
    LET c_msg == [id |-> request.id, data |-> request.data,
                  proof_r |-> request.proof_r, proof_s |-> request.proof_s,
                  public_key |-> request.public_key]
        r == verify_zk_proof(c_msg, request.public_key, fault)
    IN  IF r.raised
        THEN [resp |-> HTTPException("Failed to verify proof"), calls |-> r.calls]
        ELSE [resp |-> Ok([valid |-> r.value,
                           message |-> IF r.value THEN "Proof is valid"
                                                  ELSE "Proof is invalid",
                           timestamp |-> t0 + Sum3(ticks)]),
              calls |-> r.calls]

\* POST /api/v1/key/generate
generate_public_key(request, fault, ticks, t0) ==
    IF lib = "None"
    THEN [resp |-> Ok([public_key |-> MOCK_PUBLIC_KEY, timestamp |-> t0 + Sum3(ticks)]),
          calls |-> <<>>]
    ELSE IF "generate_public_key" \in fault
    THEN [resp |-> HTTPException("Failed to generate public key"),
          calls |-> <<Call("generate_public_key", fault)>>]
    ELSE [resp |-> Ok([public_key |-> EngineGeneratePublicKey(request.secret_key),
                       timestamp |-> t0 + Sum3(ticks)]),
          calls |-> <<Call("generate_public_key", fault)>>]

----------------------------------------------------------------------------
(* Batch endpoints *)

\* a sign slip in invalid_count
BatchVerifyResponse_SignSlip(count, valid_count, results, elapsed, timestamp) ==
    [total |-> count,
     valid_count |-> valid_count,
     invalid_count |-> valid_count - count,
     results |-> results,
     elapsed_ms |-> elapsed,
     timestamp |-> timestamp]

\* BatchVerifyResponse(total=count, valid_count=valid_count,
\*                     invalid_count=count - valid_count, results=results, ...)
BatchVerifyResponse(count, valid_count, results, elapsed, timestamp) ==
    [total |-> count,
     valid_count |-> valid_count,
     invalid_count |-> count - valid_count,
     results |-> results,
     elapsed_ms |-> elapsed,
     timestamp |-> timestamp]

\* valid_count left at its initial 0
MockBatchVerify_NoCount(count) ==
    [results |-> [i \in 1..count |-> TRUE], valid_count |-> 0]

\* the mock branch of batch_verify_proofs: results = [True] * count; valid_count = count
MockBatchVerify(count) ==
    [results |-> [i \in 1..count |-> TRUE], valid_count |-> count]

\* batch_verify_proofs after its count == 0 return
batch_verify_body(request, fault, ticks, t0) ==
    LET start == t0
        count == Len(request.proofs)
        end == t0 + Sum3(ticks)
    IN  IF lib = "None"
        THEN LET r == MockBatchVerify(count)
             IN  [resp |-> Ok(BatchVerifyResponse(count, r.valid_count, r.results,
                                                  end - start, end)),
                  calls |-> <<>>]
        ELSE LET messages == [i \in 1..count |->
                                 [id |-> request.proofs[i].id,
                                  data |-> request.proofs[i].data,
                                  proof_r |-> request.proofs[i].proof_r,
                                  proof_s |-> request.proofs[i].proof_s,
                                  public_key |-> request.proofs[i].public_key]]
                 r == EngineBatchVerify(messages, count, request.public_key)
             IN  IF "batch_verify" \in fault
                 THEN [resp |-> Unhandled("EngineError"),
                       calls |-> <<Call("batch_verify", fault)>>]
                 ELSE [resp |-> Ok(BatchVerifyResponse(count, r.valid_count, r.results,
                                                       end - start, end)),
                       calls |-> <<Call("batch_verify", fault)>>]

\* POST /api/v1/batch/verify
batch_verify_proofs(request, fault, ticks, t0) ==
    IF Len(request.proofs) = 0
    THEN [resp |-> Ok([total |-> 0, valid_count |-> 0, invalid_count |-> 0,
                       results |-> <<>>, elapsed_ms |-> 0,
                       timestamp |-> t0 + Sum3(ticks)]),
          calls |-> <<>>]
    ELSE batch_verify_body(request, fault, ticks, t0)

\* item['id'] / item['data'] raise KeyError on a dict without the key
HasKey(item, k) == k \in DOMAIN item
WellFormed(item) == HasKey(item, "id") /\ HasKey(item, "data")

\* the clock reading of the i-th utcnow() of a handler: ticks[j] is the advance
\* before the j-th reading, for the first three readings
Stamp(ticks, t0, i) ==
    t0 + ticks[1] + (IF i >= 2 THEN ticks[2] ELSE 0) + (IF i >= 3 THEN ticks[3] ELSE 0)

\* the records built in reverse order
MockBatchCreate_Reversed(items, ticks, t0) ==
    [i \in 1..Len(items) |->
        [id |-> items[Len(items) + 1 - i].id, data |-> items[Len(items) + 1 - i].data,
         proof_r |-> MOCK_PROOF_R, proof_s |-> MOCK_PROOF_S,
         public_key |-> MOCK_PUBLIC_KEY,
         timestamp |-> Stamp(ticks, t0, i)]]

\* the mock branch of batch_create_proofs: one MessageResponse per item,
\* each with its own utcnow()
MockBatchCreate(items, ticks, t0) ==
    [i \in 1..Len(items) |->
        [id |-> items[i].id, data |-> items[i].data,
         proof_r |-> MOCK_PROOF_R, proof_s |-> MOCK_PROOF_S,
         public_key |-> MOCK_PUBLIC_KEY,
         timestamp |-> Stamp(ticks, t0, i)]]

\* the key derived once per item
batch_pub_key_PerItem(request, fault) ==
    LET derivations == [i \in 1..Len(request.items) |-> Call("generate_public_key", fault)]
    IN  IF Truthy(request.public_key)
        THEN [raised |-> FALSE, calls |-> <<>>, key |-> request.public_key[1]]
        ELSE IF "generate_public_key" \in fault
        THEN [raised |-> TRUE, calls |-> <<Call("generate_public_key", fault)>>]
        ELSE [raised |-> FALSE, calls |-> derivations,
              key |-> EngineGeneratePublicKey(request.secret_key)]

\* the key derived even when the request supplies one
batch_pub_key_AlwaysDerive(request, fault) ==
    IF "generate_public_key" \in fault
    THEN [raised |-> TRUE, calls |-> <<Call("generate_public_key", fault)>>]
    ELSE [raised |-> FALSE, calls |-> <<Call("generate_public_key", fault)>>,
          key |-> IF Truthy(request.public_key) THEN request.public_key[1]
                  ELSE EngineGeneratePublicKey(request.secret_key)]

\* pub_key = request.public_key or lib.generate_public_key(request.secret_key)
batch_pub_key(request, fault) ==
    IF Truthy(request.public_key)
    THEN [raised |-> FALSE, calls |-> <<>>, key |-> request.public_key[1]]
    ELSE IF "generate_public_key" \in fault
    THEN [raised |-> TRUE, calls |-> <<Call("generate_public_key", fault)>>]
    ELSE [raised |-> FALSE, calls |-> <<Call("generate_public_key", fault)>>,
          key |-> EngineGeneratePublicKey(request.secret_key)]

\* the real branch of batch_create_proofs
RealBatchCreate(request, fault, ticks, t0) ==
    LET items == request.items
        count == Len(items)
        k == batch_pub_key(request, fault)
        now == t0 + ticks[1] + ticks[2]
        end == t0 + Sum3(ticks)
    IN  IF k.raised
        THEN [resp |-> Unhandled("EngineError"), calls |-> k.calls]
        ELSE IF \E i \in 1..count : ~WellFormed(items[i])
        THEN [resp |-> Unhandled("KeyError"), calls |-> k.calls]
        ELSE IF "batch_create" \in fault
        THEN [resp |-> Unhandled("EngineError"),
              calls |-> Append(k.calls, Call("batch_create", fault))]
        ELSE LET ids == [i \in 1..count |-> items[i].id]
                 data_arr == [i \in 1..count |-> items[i].data]
                 messages == EngineBatchCreate(ids, data_arr, count,
                                               request.secret_key, k.key)
             IN  [resp |-> Ok([proofs |-> [i \in 1..count |->
                                              MessageResponse(messages[i], now)],
                               elapsed_ms |-> end - t0,
                               timestamp |-> end]),
                  calls |-> Append(k.calls, Call("batch_create", fault))]

\* batch_create_proofs after its count == 0 return
batch_create_body(request, fault, ticks, t0) ==
    LET items == request.items
        end == t0 + Sum3(ticks)
    IN  IF lib = "None"
        THEN IF \E i \in 1..Len(items) : ~WellFormed(items[i])
             THEN [resp |-> Unhandled("KeyError"), calls |-> <<>>]
             ELSE [resp |-> Ok([proofs |-> MockBatchCreate(items, ticks, t0),
                                elapsed_ms |-> end - t0,
                                timestamp |-> end]),
                   calls |-> <<>>]
        ELSE RealBatchCreate(request, fault, ticks, t0)

\* batch_create_proofs without its count == 0 return
batch_create_proofs_NoShortCircuit(request, fault, ticks, t0) ==
    batch_create_body(request, fault, ticks, t0)

\* POST /api/v1/batch/create
batch_create_proofs(request, fault, ticks, t0) ==
    IF Len(request.items) = 0
    THEN [resp |-> Ok([proofs |-> <<>>, elapsed_ms |-> 0,
                       timestamp |-> t0 + Sum3(ticks)]),
          calls |-> <<>>]
    ELSE batch_create_body(request, fault, ticks, t0)

----------------------------------------------------------------------------
(* Requests *)

RECURSIVE SeqsUpTo(_, _)
SeqsUpTo(S, n) ==
    IF n = 0 THEN {<<>>}
    ELSE LET shorter == SeqsUpTo(S, n - 1)
         IN  shorter \cup {Append(q, x) : q \in {t \in shorter : Len(t) = n - 1}, x \in S}

MessageRequests ==
    [id : IdValues, data : DataValues, secret_key : SecretValues,
     public_key : OptKeyValues]

\* proofs a caller may submit: two made by the engine, one tampered with, one from mock mode
ProofValues ==
    LET a == EngineCreate(1, 10, 7, EngineGeneratePublicKey(7))
        b == EngineCreate(INT_MAX, INT_MIN, 3, EngineGeneratePublicKey(3))
    IN  {a, b, [a EXCEPT !.proof_r = a.proof_r + 1],
         [id |-> 1, data |-> 10, proof_r |-> MOCK_PROOF_R, proof_s |-> MOCK_PROOF_S,
          public_key |-> MOCK_PUBLIC_KEY]}

VerifyKeyValues == {EngineGeneratePublicKey(7), EngineGeneratePublicKey(3)}

PublicKeyRequests == [secret_key : SecretValues]

BatchVerifyRequests ==
    [proofs : SeqsUpTo(ProofValues, MaxItems), public_key : VerifyKeyValues]

\* items is List[dict]: a dict may lack 'id' or 'data'
ItemValues ==
    [id : IdValues, data : DataValues] \cup {[id |-> 1], [data |-> 10]}

BatchCreateRequests ==
    [items : SeqsUpTo(ItemValues, MaxItems), secret_key : SecretValues,
     public_key : OptKeyValues]

\* the native functions that may fail during one request; none exists in mock mode
Faults(fns) == IF lib = "None" THEN {{}} ELSE SUBSET fns

Ticks == [1..3 -> 0..MaxAdv]

NoRequest == [op |-> "none"]
NoResponse == [kind |-> "none"]
NoEnv == [fault |-> {}, ticks |-> <<0, 0, 0>>, start |-> 0]

----------------------------------------------------------------------------
(* The state machine *)

\* module start-up: lib = ctypes.CDLL(LIB_PATH), or None when loading fails
Init ==
    /\ lib \in {"CDLL", "None"}
    /\ clock = 0
    /\ pc = "idle"
    /\ req = NoRequest
    /\ env = NoEnv
    /\ calls = <<>>
    /\ resp = NoResponse

\* one request handled from entry to return
Handle(op, request, fault, ticks, out) ==
    /\ clock + Sum3(ticks) <= MaxClock
    /\ pc' = "responded"
    /\ req' = [op |-> op, body |-> request]
    /\ env' = [fault |-> fault, ticks |-> ticks, start |-> clock]
    /\ calls' = out.calls
    /\ resp' = out.resp
    /\ clock' = clock + Sum3(ticks)
    /\ UNCHANGED lib

HealthCheck ==
    /\ pc = "idle"
    /\ Handle("health", <<>>, {}, <<0, 0, 0>>, health_check(clock))

CreateProof ==
    /\ pc = "idle"
    /\ \E request \in MessageRequests,
          fault \in Faults({"generate_public_key", "create_zk_proof"}),
          ticks \in Ticks :
           Handle("create", request, fault, ticks,
                  create_proof(request, fault, ticks, clock))

VerifyProof ==
    /\ pc = "idle"
    /\ \E p \in ProofValues, fault \in Faults({"verify_zk_proof"}), ticks \in Ticks :
           Handle("verify", p, fault, ticks, verify_proof(p, fault, ticks, clock))

GenerateKey ==
    /\ pc = "idle"
    /\ \E request \in PublicKeyRequests, fault \in Faults({"generate_public_key"}),
          ticks \in Ticks :
           Handle("key", request, fault, ticks,
                  generate_public_key(request, fault, ticks, clock))

BatchVerify ==
    /\ pc = "idle"
    /\ \E request \in BatchVerifyRequests, fault \in Faults({"batch_verify"}),
          ticks \in Ticks :
           Handle("batch_verify", request, fault, ticks,
                  batch_verify_proofs(request, fault, ticks, clock))

BatchCreate ==
    /\ pc = "idle"
    /\ \E request \in BatchCreateRequests,
          fault \in Faults({"generate_public_key", "batch_create"}),
          ticks \in Ticks :
           Handle("batch_create", request, fault, ticks,
                  batch_create_proofs(request, fault, ticks, clock))

\* the response is sent; nothing of the request is kept
Deliver ==
    /\ pc = "responded"
    /\ pc' = "idle"
    /\ req' = NoRequest
    /\ env' = NoEnv
    /\ calls' = <<>>
    /\ resp' = NoResponse
    /\ UNCHANGED <<lib, clock>>

Next ==
    \/ HealthCheck
    \/ CreateProof
    \/ VerifyProof
    \/ GenerateKey
    \/ BatchVerify
    \/ BatchCreate
    \/ Deliver

Spec == Init /\ [][Next]_vars

----------------------------------------------------------------------------
(* Properties *)

Responded(op) == pc = "responded" /\ req.op = op
Answered(op) == Responded(op) /\ resp.kind = "ok"
EngineFailed == \E i \in 1..Len(calls) : ~calls[i].ok
CallsTo(fn) == Cardinality({i \in 1..Len(calls) : calls[i].fn = fn})
CountTrue(results) == Cardinality({i \in 1..Len(results) : results[i]})
Malformed(items) == \E i \in 1..Len(items) : ~WellFormed(items[i])

SameProof(a, b) ==
    /\ a.id = b.id
    /\ a.data = b.data
    /\ a.proof_r = b.proof_r
    /\ a.proof_s = b.proof_s
    /\ a.public_key = b.public_key

\* C1: the i-th record of a batch create response equals, in id, data, proof_r,
\* proof_s and public_key, the record the single create handler returns for
\* (id_i, data_i, secret, public_key), in both engine variants.
C1_BatchCreateEqualsCreate ==
    Answered("batch_create") =>
        \A i \in 1..Len(req.body.items) :
            LET single == create_proof([id |-> req.body.items[i].id,
                                        data |-> req.body.items[i].data,
                                        secret_key |-> req.body.secret_key,
                                        public_key |-> req.body.public_key],
                                       {}, <<0, 0, 0>>, env.start).resp
            IN  /\ Len(resp.body.proofs) = Len(req.body.items)
                /\ single.kind = "ok"
                /\ SameProof(resp.body.proofs[i], single.body)

\* C2: whenever a native call fails during create, verify, key generation, batch
\* verify or batch create, the handler itself reports the failure (an HTTPException
\* raised from its except clause), which carries no record or result list.
C2_EngineErrorsCaught ==
    (pc = "responded" /\ EngineFailed) => resp.kind = "HTTPException"

\* C3: a batch create request with an item lacking 'id' or 'data' is rejected
\* without any native call, key derivation included, and not as an engine failure.
C3_MalformedRejectedBeforeEngine ==
    (Responded("batch_create") /\ Malformed(req.body.items)) =>
        /\ calls = <<>>
        /\ resp.kind # "ok"
        /\ ~(resp.kind = "unhandled" /\ resp.exc = "EngineError")

\* C4: all records of one batch create response carry the same timestamp.
C4_SharedTimestamp ==
    Answered("batch_create") =>
        \A i, j \in 1..Len(resp.body.proofs) :
            resp.body.proofs[i].timestamp = resp.body.proofs[j].timestamp

\* C5: an empty batch verify returns total = valid_count = invalid_count = 0,
\* results = [] and elapsed_ms = 0, an empty batch create returns proofs = [] and
\* elapsed_ms = 0, and neither makes a native call, in either engine variant.
C5_EmptyBatchShortCircuit ==
    /\ (Responded("batch_verify") /\ req.body.proofs = <<>>) =>
           /\ resp.kind = "ok"
           /\ resp.body.total = 0
           /\ resp.body.valid_count = 0
           /\ resp.body.invalid_count = 0
           /\ resp.body.results = <<>>
           /\ resp.body.elapsed_ms = 0
           /\ calls = <<>>
    /\ (Responded("batch_create") /\ req.body.items = <<>>) =>
           /\ resp.kind = "ok"
           /\ resp.body.proofs = <<>>
           /\ resp.body.elapsed_ms = 0
           /\ calls = <<>>

\* an empty batch create under the loaded library, no public key supplied, the
\* key derivation set to fail and the clock advancing during the request
C5_Witness ==
    /\ Answered("batch_create")
    /\ req.body.items = <<>>
    /\ lib = "CDLL"
    /\ req.body.public_key = None
    /\ "generate_public_key" \in env.fault
    /\ clock > env.start

\* C6: in every batch verify response, valid_count + invalid_count = total =
\* len(results), and total is the number of proofs submitted.
C6_CountConsistency ==
    Answered("batch_verify") =>
        /\ resp.body.valid_count + resp.body.invalid_count = resp.body.total
        /\ resp.body.total = Len(resp.body.results)
        /\ resp.body.total = Len(req.body.proofs)

\* the engine found one proof valid and one invalid
C6_Witness ==
    /\ Answered("batch_verify")
    /\ lib = "CDLL"
    /\ resp.body.valid_count = 1
    /\ resp.body.invalid_count = 1

\* C7: in every batch verify response, valid_count is the number of true entries
\* of results, under the loaded library and in mock mode.
C7_ValidCountIsTrueCount ==
    Answered("batch_verify") =>
        resp.body.valid_count = CountTrue(resp.body.results)

\* a mock-mode answer for a batch of MaxItems proofs
C7_Witness ==
    /\ Answered("batch_verify")
    /\ lib = "None"
    /\ Len(resp.body.results) = MaxItems
    /\ resp.body.valid_count = MaxItems

\* C8: a batch create response for n >= 1 items holds n records, the i-th with the
\* i-th item's id and data, up to the ends of the 32-bit range.
C8_OrderAndLength ==
    (Answered("batch_create") /\ req.body.items # <<>>) =>
        /\ Len(resp.body.proofs) = Len(req.body.items)
        /\ \A i \in 1..Len(req.body.items) :
               /\ resp.body.proofs[i].id = req.body.items[i].id
               /\ resp.body.proofs[i].data = req.body.items[i].data

\* a mock-mode batch of two different items at the ends of the 32-bit range
C8_Witness ==
    /\ Answered("batch_create")
    /\ lib = "None"
    /\ Len(req.body.items) >= 2
    /\ req.body.items[1] = [id |-> INT_MAX, data |-> INT_MIN]
    /\ req.body.items[2] = [id |-> 1, data |-> 10]
    /\ resp.body.proofs[1].id = INT_MAX

\* C9: in a batch create response made without an explicit public key, every
\* record has the same public_key, and the key is never derived per item: the
\* loaded library is asked for it exactly once (mock mode has no derivation call).
C9_SharedKey ==
    (Answered("batch_create") /\ req.body.items # <<>> /\ req.body.public_key = None) =>
        /\ \A i, j \in 1..Len(resp.body.proofs) :
               resp.body.proofs[i].public_key = resp.body.proofs[j].public_key
        /\ CallsTo("generate_public_key") = (IF lib = "CDLL" THEN 1 ELSE 0)

\* two items, no public key, under the loaded library
C9_Witness ==
    /\ Answered("batch_create")
    /\ lib = "CDLL"
    /\ req.body.public_key = None
    /\ Len(resp.body.proofs) >= 2
    /\ resp.body.proofs[2].public_key = EngineGeneratePublicKey(req.body.secret_key)

C11_EngineSelectedOnce ==
    /\ [][lib' = lib]_vars
    /\ (lib = "CDLL") => [](Answered("health") => resp.body.library_loaded = TRUE)
    /\ (lib = "None") => [](Answered("health") => resp.body.library_loaded = FALSE)

\* a health response in mock mode, after other requests have been served
C11_Witness ==
    /\ Answered("health")
    /\ lib = "None"
    /\ resp.body.library_loaded = FALSE
    /\ clock > 0

\* C12: in mock mode the verify handler answers valid = TRUE for every proof, and
\* the batch verify handler answers a non-empty batch with results all TRUE,
\* valid_count = total and invalid_count = 0.
C12_MockVerifyAlwaysTrue ==
    /\ (lib = "None" /\ Responded("verify")) =>
           /\ resp.kind = "ok"
           /\ resp.body.valid = TRUE
    /\ (lib = "None" /\ Responded("batch_verify") /\ req.body.proofs # <<>>) =>
           /\ resp.kind = "ok"
           /\ Len(resp.body.results) = Len(req.body.proofs)
           /\ \A i \in 1..Len(resp.body.results) : resp.body.results[i] = TRUE
           /\ resp.body.valid_count = resp.body.total
           /\ resp.body.invalid_count = 0

\* mock mode declares valid a proof the engine's arithmetic rejects
C12_Witness ==
    /\ Answered("verify")
    /\ lib = "None"
    /\ ~EngineVerify(req.body, req.body.public_key)
    /\ resp.body.valid = TRUE

\* C13: in mock mode create without a public key returns the caller's id and data,
\* proof_r = 123, proof_s = 456 and public_key = 17, the value mock key generation
\* returns, whatever the secret; verifying the returned record with its returned
\* public_key answers valid = TRUE.
C13_MockCreateRecord ==
    (lib = "None" /\ Responded("create") /\ req.body.public_key = None) =>
        /\ resp.kind = "ok"
        /\ resp.body.id = req.body.id
        /\ resp.body.data = req.body.data
        /\ resp.body.proof_r = 123
        /\ resp.body.proof_s = 456
        /\ resp.body.public_key = 17
        /\ resp.body.public_key =
               generate_public_key([secret_key |-> req.body.secret_key],
                                   {}, <<0, 0, 0>>, clock).resp.body.public_key
        /\ LET v == verify_proof([id |-> resp.body.id, data |-> resp.body.data,
                                  proof_r |-> resp.body.proof_r,
                                  proof_s |-> resp.body.proof_s,
                                  public_key |-> resp.body.public_key],
                                 {}, <<0, 0, 0>>, clock).resp
           IN  v.kind = "ok" /\ v.body.valid = TRUE

\* a mock create without a public key, with a secret whose derived key is not 17
C13_Witness ==
    /\ Answered("create")
    /\ lib = "None"
    /\ req.body.public_key = None
    /\ EngineGeneratePublicKey(req.body.secret_key) # MOCK_PUBLIC_KEY
    /\ resp.body.public_key = MOCK_PUBLIC_KEY

\* C14: for a non-empty batch verify or batch create under the loaded library,
\* elapsed_ms is the clock advance during the engine call alone: what passes
\* while the inputs are marshalled before it and while the response records are
\* built after it is not counted.
C14_ElapsedWindowIsEngineCall ==
    (lib = "CDLL" /\ (\/ Answered("batch_verify") /\ req.body.proofs # <<>>
                      \/ Answered("batch_create") /\ req.body.items # <<>>)) =>
        resp.body.elapsed_ms = env.ticks[2]

====
